---- MODULE Spec2Model ----
(***************************************************************************)
(* Model of flask_app.py: a song recommendation service.                   *)
(*                                                                         *)
(* The module-level start-up code (lines 28-61, 99-100) reads a table,     *)
(* fills missing cells, validates the columns, tags every row with a mood, *)
(* builds a TF-IDF matrix, lowercases the song names and starts the        *)
(* server thread.  Three request handlers (lines 64-92) then answer        *)
(* queries from worker threads.                                            *)
(*                                                                         *)
(* Strings are sequences of one-character strings, so that str.lower(),    *)
(* the regular expression of assign_mood and the tokenizer of the          *)
(* vectorizer act on characters as the code does.                          *)
(***************************************************************************)
EXTENDS Integers, Sequences, FiniteSets, TLC

VARIABLES
    uploaded,       \* the uploaded table as read by pd.read_csv (never written again)
    df,             \* the data frame: column name -> sequence of cells
    tfidf_matrix,   \* one weight vector per row (term -> weight), <<>> before it is built
    mood_keywords,  \* the module-level dict, in insertion order
    pc,             \* position of the module-level start-up code
    thr             \* worker threads: the request each handles and its response

vars == <<uploaded, df, tfidf_matrix, mood_keywords, pc, thr>>

----------------------------------------------------------------------------
(* Bounds of the model *)

MaxRows == 3        \* rows of the catalogs of Spec
NumThreads == 2     \* worker threads of SpecConc
BulkExtra == 2      \* rows beyond the top-N window in the catalogs of SpecBulk
MaxPieces == 2      \* pieces concatenated into a text in SpecMood

(* Program constants *)

TopN == 100         \* similar_songs[:100], mood_songs[:100], argsort()[-101:-1]

----------------------------------------------------------------------------
(* Characters and str.lower() *)

UpperChars == <<"A","B","C","D","E","F","G","H","I","J","K","L","M",
                "N","O","P","Q","R","S","T","U","V","W","X","Y","Z">>
LowerChars == <<"a","b","c","d","e","f","g","h","i","j","k","l","m",
                "n","o","p","q","r","s","t","u","v","w","x","y","z">>
Digits == {"0","1","2","3","4","5","6","7","8","9"}

Range(s) == {s[i] : i \in DOMAIN s}

\* \w of the re module on ASCII text: letters, digits and underscore
IsWordChar(c) == c \in Range(UpperChars) \cup Range(LowerChars) \cup Digits \cup {"_"}

LowerChar(c) ==
    IF \E k \in DOMAIN UpperChars : UpperChars[k] = c
    THEN LowerChars[CHOOSE k \in DOMAIN UpperChars : UpperChars[k] = c]
    ELSE c

\* str.lower()
Lower(s) == [i \in DOMAIN s |-> LowerChar(s[i])]

\* a missing cell of the table (NaN); no text equals it
NaN == <<"NaN">>

----------------------------------------------------------------------------
(* The mood lexicon, lines 37-44, in declaration order *)

MoodKeywordsInit == <<
    \* sad: cry, heartbreak, lonely, tears, pain, lost
    [mood |-> <<"s","a","d">>,
     keywords |-> <<<<"c","r","y">>,
                   <<"h","e","a","r","t","b","r","e","a","k">>,
                   <<"l","o","n","e","l","y">>,
                   <<"t","e","a","r","s">>,
                   <<"p","a","i","n">>,
                   <<"l","o","s","t">>>>],
    \* energetic_gym: workout, pump, power, strong, run, lift
    [mood |-> <<"e","n","e","r","g","e","t","i","c","_","g","y","m">>,
     keywords |-> <<<<"w","o","r","k","o","u","t">>,
                   <<"p","u","m","p">>,
                   <<"p","o","w","e","r">>,
                   <<"s","t","r","o","n","g">>,
                   <<"r","u","n">>,
                   <<"l","i","f","t">>>>],
    \* romantic: love, heart, kiss, forever, romance, darling
    [mood |-> <<"r","o","m","a","n","t","i","c">>,
     keywords |-> <<<<"l","o","v","e">>,
                   <<"h","e","a","r","t">>,
                   <<"k","i","s","s">>,
                   <<"f","o","r","e","v","e","r">>,
                   <<"r","o","m","a","n","c","e">>,
                   <<"d","a","r","l","i","n","g">>>>],
    \* nostalgic: memories, past, childhood, remember, old days
    [mood |-> <<"n","o","s","t","a","l","g","i","c">>,
     keywords |-> <<<<"m","e","m","o","r","i","e","s">>,
                   <<"p","a","s","t">>,
                   <<"c","h","i","l","d","h","o","o","d">>,
                   <<"r","e","m","e","m","b","e","r">>,
                   <<"o","l","d"," ","d","a","y","s">>>>],
    \* energetic_hype: party, dance, lit, hype, jump, crazy
    [mood |-> <<"e","n","e","r","g","e","t","i","c","_","h","y","p","e">>,
     keywords |-> <<<<"p","a","r","t","y">>,
                   <<"d","a","n","c","e">>,
                   <<"l","i","t">>,
                   <<"h","y","p","e">>,
                   <<"j","u","m","p">>,
                   <<"c","r","a","z","y">>>>],
    \* dark_moody: night, mystery, shadow, dark, alone, whisper
    [mood |-> <<"d","a","r","k","_","m","o","o","d","y">>,
     keywords |-> <<<<"n","i","g","h","t">>,
                   <<"m","y","s","t","e","r","y">>,
                   <<"s","h","a","d","o","w">>,
                   <<"d","a","r","k">>,
                   <<"a","l","o","n","e">>,
                   <<"w","h","i","s","p","e","r">>>>]
>>

Unknown == <<"u","n","k","n","o","w","n">>

----------------------------------------------------------------------------
(* assign_mood, lines 47-52 *)

\* is the character at position i of text a word character (FALSE outside the text)
WordAt(text, i) == i \in DOMAIN text /\ IsWordChar(text[i])

\* the assertion \b between positions p and p+1 of text (p in 0..Len(text))
WordBoundary(text, p) == WordAt(text, p) # WordAt(text, p + 1)

\* mutant: the pattern without its \b assertions (plain substring search)
re_search_substring(word, text) ==
    \E p \in 0..(Len(text) - Len(word)) :
        \A k \in 1..Len(word) : text[p + k] = word[k]

\* re.search(r"\b" + word + r"\b", text) finds a match
re_search(word, text) ==
    \E p \in 0..(Len(text) - Len(word)) :
        /\ WordBoundary(text, p)
        /\ \A k \in 1..Len(word) : text[p + k] = word[k]
        /\ WordBoundary(text, p + Len(word))

\* the loop of assign_mood over mood_keywords.items() from entry k on
RECURSIVE MoodFrom(_, _, _)
MoodFrom(lexicon, text, k) ==
    IF k > Len(lexicon) THEN Unknown
    ELSE IF \E w \in DOMAIN lexicon[k].keywords : re_search(lexicon[k].keywords[w], text)
         THEN lexicon[k].mood
         ELSE MoodFrom(lexicon, text, k + 1)

assign_mood(text) == MoodFrom(mood_keywords, Lower(text), 1)

----------------------------------------------------------------------------
(* TfidfVectorizer(stop_words="english").fit_transform, lines 57-58 *)

\* the entries of the vectorizer's English stop list that the texts of the model use
StopWords == { <<"a","t">>, <<"a","n","d">>, <<"a","l","l">>, <<"w","e">>,
               <<"t","h","e">>, <<"a","l","o","n","e">>, <<"c","r","y">> }

EmitToken(run) == IF Len(run) >= 2 THEN <<run>> ELSE <<>>

\* token_pattern \b\w\w+\b: the maximal runs of word characters of length >= 2
RECURSIVE ScanTokens(_, _, _)
ScanTokens(text, i, run) ==
    IF i > Len(text) THEN EmitToken(run)
    ELSE IF IsWordChar(text[i]) THEN ScanTokens(text, i + 1, Append(run, text[i]))
    ELSE EmitToken(run) \o ScanTokens(text, i + 1, <<>>)

\* the analyzer: lowercase, tokenize, drop the stop words
Analyze(text) == SelectSeq(ScanTokens(Lower(text), 1, <<>>), LAMBDA tok : tok \notin StopWords)

CountOf(tok, toks) == Cardinality({k \in DOMAIN toks : toks[k] = tok})

\* LnQ[k] = round(8 * ln k), k in 1..130
LnQ == << 0, 6, 9, 11, 13, 14, 16, 17, 18, 18, 19, 20, 21, 21, 22, 22, 23, 23, 24, 24,
          24, 25, 25, 25, 26, 26, 26, 27, 27, 27, 27, 28, 28, 28, 28, 29, 29, 29, 29, 30,
          30, 30, 30, 30, 30, 31, 31, 31, 31, 31, 31, 32, 32, 32, 32, 32, 32, 32, 33, 33,
          33, 33, 33, 33, 33, 34, 34, 34, 34, 34, 34, 34, 34, 34, 35, 35, 35, 35, 35, 35,
          35, 35, 35, 35, 36, 36, 36, 36, 36, 36, 36, 36, 36, 36, 36, 37, 37, 37, 37, 37,
          37, 37, 37, 37, 37, 37, 37, 37, 38, 38, 38, 38, 38, 38, 38, 38, 38, 38, 38, 38,
          38, 38, 38, 39, 39, 39, 39, 39, 39, 39 >>

\* smoothed idf, ln((1 + n) / (1 + df)) + 1, in units of 1/8
Idf(n, docfreq) == 8 + LnQ[1 + n] - LnQ[1 + docfreq]

Vocabulary(toks) == UNION {Range(toks[i]) : i \in DOMAIN toks}

\* one row per document: term -> tf * idf.  The rows are kept unnormalised:
\* the L2 norm of a row cancels in the cosine that is taken of it.
fit_transform(docs) ==
    LET toks  == [i \in DOMAIN docs |-> Analyze(docs[i])]
        vocab == Vocabulary(toks)
        n     == Len(docs)
        docfreq == [t \in vocab |-> Cardinality({i \in DOMAIN docs : t \in Range(toks[i])})]
    IN  [i \in DOMAIN docs |->
            [t \in vocab |-> CountOf(t, toks[i]) * Idf(n, docfreq[t])]]

----------------------------------------------------------------------------
(* The data frame *)

Min(a, b) == IF a < b THEN a ELSE b
Max(a, b) == IF a > b THEN a ELSE b

\* len(df)
NumRows(d) == IF DOMAIN d = {} THEN 0 ELSE Len(d[CHOOSE c \in DOMAIN d : TRUE])

\* a table with the given columns from a sequence of row records
Table(rows, cols) == [c \in cols |-> [i \in DOMAIN rows |-> rows[i][c]]]

required_columns == {"text", "song", "artist"}

NoResp == [kind |-> "none", names |-> <<>>, song_index |-> 0, indices |-> <<>>]
Idle == [route |-> "none", arg |-> <<>>, resp |-> NoResp]

Threads == 1..NumThreads

InitWith(table) ==
    /\ uploaded = table
    /\ df = table                      \* line 28: df = pd.read_csv(file_path)
    /\ tfidf_matrix = <<>>
    /\ mood_keywords = MoodKeywordsInit
    /\ pc = "fillna"
    /\ thr = [t \in Threads |-> Idle]

----------------------------------------------------------------------------
(* Start-up, lines 29-61 and 99-100 *)

\* line 29: df.fillna("", inplace=True)
FillNa ==
    /\ pc = "fillna"
    /\ df' = [c \in DOMAIN df |->
                [i \in DOMAIN df[c] |-> IF df[c][i] = NaN THEN <<>> ELSE df[c][i]]]
    /\ pc' = "check"
    /\ UNCHANGED <<uploaded, tfidf_matrix, mood_keywords, thr>>

\* mutant: the check never raises
CheckColumnsNoRaise ==
    /\ pc = "check"
    /\ pc' = "mood"
    /\ UNCHANGED <<uploaded, df, tfidf_matrix, mood_keywords, thr>>

\* lines 32-34: raise ValueError unless the required columns exist
CheckColumns ==
    /\ pc = "check"
    /\ pc' = IF required_columns \subseteq DOMAIN df THEN "mood" ELSE "failed"
    /\ UNCHANGED <<uploaded, df, tfidf_matrix, mood_keywords, thr>>

\* line 54: df["mood"] = df["text"].apply(assign_mood)  (KeyError without the column)
AssignMoods ==
    /\ pc = "mood"
    /\ IF "text" \in DOMAIN df
       THEN /\ df' = [c \in DOMAIN df \cup {"mood"} |->
                        IF c = "mood"
                        THEN [i \in DOMAIN df["text"] |-> assign_mood(df["text"][i])]
                        ELSE df[c]]
            /\ pc' = "tfidf"
       ELSE /\ df' = df
            /\ pc' = "failed"
    /\ UNCHANGED <<uploaded, tfidf_matrix, mood_keywords, thr>>

\* lines 57-58: fit_transform raises ValueError on an empty vocabulary
BuildTfidf ==
    /\ pc = "tfidf"
    /\ IF Vocabulary([i \in DOMAIN df["text"] |-> Analyze(df["text"][i])]) = {}
       THEN /\ tfidf_matrix' = tfidf_matrix
            /\ pc' = "failed"
       ELSE /\ tfidf_matrix' = fit_transform(df["text"])
            /\ pc' = "lower"
    /\ UNCHANGED <<uploaded, df, mood_keywords, thr>>

\* line 61: df["song"] = df["song"].str.lower()
LowerSongs ==
    /\ pc = "lower"
    /\ IF "song" \in DOMAIN df
       THEN /\ df' = [df EXCEPT !["song"] = [i \in DOMAIN df["song"] |-> Lower(df["song"][i])]]
            /\ pc' = "start"
       ELSE /\ df' = df
            /\ pc' = "failed"
    /\ UNCHANGED <<uploaded, tfidf_matrix, mood_keywords, thr>>

\* lines 99-100: thread.start(); the server accepts requests from here on
StartServer ==
    /\ pc = "start"
    /\ pc' = "serving"
    /\ UNCHANGED <<uploaded, df, tfidf_matrix, mood_keywords, thr>>

Build == FillNa \/ CheckColumns \/ AssignMoods \/ BuildTfidf \/ LowerSongs \/ StartServer

----------------------------------------------------------------------------
(* cosine_similarity and argsort, lines 72-73 *)

RECURSIVE SumOver(_, _)
SumOver(f, S) ==
    IF S = {} THEN 0
    ELSE LET x == CHOOSE x \in S : TRUE IN f[x] + SumOver(f, S \ {x})

Dot(a, b) == SumOver([t \in DOMAIN a |-> a[t] * b[t]], DOMAIN a)

\* cosine_similarity(q, M).flatten(): entry i is the cosine of q and M[i], 0 when
\* either vector is zero.  The cosine c >= 0 is held as the fraction num/den = c*c*|q|^2,
\* which orders the entries of one call as c does.
cosine_similarity(q, M) ==
    [i \in DOMAIN M |->
        IF Dot(q, q) = 0 \/ Dot(M[i], M[i]) = 0
        THEN [num |-> 0, den |-> 1]
        ELSE [num |-> Dot(q, M[i]) * Dot(q, M[i]), den |-> Dot(M[i], M[i])]]

SimLess(a, b) == a.num * b.den < b.num * a.den

Perms(n) == {p \in [1..n -> 1..n] : \A i, j \in 1..n : p[i] = p[j] => i = j}

\* similarities.argsort(): the default sort is not stable, so equal entries
\* come out in any order
argsort(sims) ==
    {p \in Perms(Len(sims)) :
        \A i \in 1..(Len(sims) - 1) : ~SimLess(sims[p[i + 1]], sims[p[i]])}

Reverse(s) == [i \in DOMAIN s |-> s[Len(s) + 1 - i]]

\* s[-(k+1):-1][::-1]
LastButOneReversed(s, k) == Reverse(SubSeq(s, Max(Len(s) - (k + 1), 0) + 1, Len(s) - 1))

\* s[:k]
Take(s, k) == SubSeq(s, 1, Min(k, Len(s)))

----------------------------------------------------------------------------
(* The request handlers, lines 64-92 *)

Recommendations(names, song_index, indices) ==
    [kind |-> "recommendations", names |-> names, song_index |-> song_index, indices |-> indices]
ErrorResp == [kind |-> "error", names |-> <<>>, song_index |-> 0, indices |-> <<>>]
\* an exception escaping the handler (answered by the framework as a server error)
ExceptionResp == [kind |-> "exception", names |-> <<>>, song_index |-> 0, indices |-> <<>>]

\* the response for the row song_index, lines 72-76
SimilarTo(song_index) ==
    LET similarities == cosine_similarity(tfidf_matrix[song_index], tfidf_matrix)
    IN  { Recommendations([k \in DOMAIN LastButOneReversed(p, TopN) |->
                               df["song"][LastButOneReversed(p, TopN)[k]]],
                          song_index,
                          LastButOneReversed(p, TopN)) : p \in argsort(similarities) }

\* mutant: no membership test before index[0]
recommend_song_unchecked(name) ==
    LET song_name == Lower(name)
        matches == {i \in DOMAIN df["song"] : df["song"][i] = song_name}
    IN  IF matches = {} THEN {ExceptionResp}
        ELSE SimilarTo(CHOOSE i \in matches : \A j \in matches : i <= j)

\* mutant: the query is not lowercased
recommend_song_cased(name) ==
    LET matches == {i \in DOMAIN df["song"] : df["song"][i] = name}
    IN  IF matches = {} THEN {ErrorResp}
        ELSE SimilarTo(CHOOSE i \in matches : \A j \in matches : i <= j)

\* mutant: the last matching row instead of the first
recommend_song_last(name) ==
    LET song_name == Lower(name)
        matches == {i \in DOMAIN df["song"] : df["song"][i] = song_name}
    IN  IF matches = {} THEN {ErrorResp}
        ELSE SimilarTo(CHOOSE i \in matches : \A j \in matches : i >= j)

\* recommend_song, lines 65-76: the set of responses it can give
recommend_song(name) ==
    IF "song" \notin DOMAIN df THEN {ExceptionResp}
    ELSE
    LET song_name == Lower(name)
        matches == {i \in DOMAIN df["song"] : df["song"][i] = song_name}
    IN  IF ~(\E i \in DOMAIN df["song"] : df["song"][i] = song_name)
        THEN {ErrorResp}
        ELSE IF matches = {} THEN {ExceptionResp}      \* index[0] of an empty index
        ELSE SimilarTo(CHOOSE i \in matches : \A j \in matches : i <= j)

\* df[mask]["song"].tolist(): the songs of the rows where mask holds, in row order
Masked(song, mask) ==
    LET kept == SelectSeq([i \in DOMAIN song |-> i], LAMBDA i : mask[i])
    IN  [k \in DOMAIN kept |-> song[kept[k]]]

\* mutant: the slice keeps one entry more
recommend_by_artist_101(artist) ==
    LET artist_name == Lower(artist)
        similar_songs == Masked(df["song"],
                                [i \in DOMAIN df["artist"] |-> Lower(df["artist"][i]) = artist_name])
    IN  IF similar_songs # <<>>
        THEN Recommendations(Take(similar_songs, TopN + 1), 0, <<>>)
        ELSE ErrorResp

\* recommend_by_artist, lines 80-84
recommend_by_artist(artist) ==
    IF ~({"artist", "song"} \subseteq DOMAIN df) THEN ExceptionResp
    ELSE
    LET artist_name == Lower(artist)
        similar_songs == Masked(df["song"],
                                [i \in DOMAIN df["artist"] |-> Lower(df["artist"][i]) = artist_name])
    IN  IF similar_songs # <<>>
        THEN Recommendations(Take(similar_songs, TopN), 0, <<>>)
        ELSE ErrorResp

\* recommend_by_mood, lines 88-92
recommend_by_mood(mood) ==
    IF ~({"mood", "song"} \subseteq DOMAIN df) THEN ExceptionResp
    ELSE
    LET mood_name == Lower(mood)
        mood_songs == Masked(df["song"],
                             [i \in DOMAIN df["mood"] |-> df["mood"][i] = mood_name])
    IN  IF mood_songs # <<>>
        THEN Recommendations(Take(mood_songs, TopN), 0, <<>>)
        ELSE ErrorResp

\* a worker thread of the server takes a request for a route
Dispatch(t, route, arg) ==
    /\ pc = "serving"
    /\ thr[t].route = "none" \/ thr[t].resp.kind # "none"
    /\ thr' = [thr EXCEPT ![t] = [route |-> route, arg |-> arg, resp |-> NoResp]]
    /\ UNCHANGED <<uploaded, df, tfidf_matrix, mood_keywords, pc>>

Handling(t, route) == pc = "serving" /\ thr[t].route = route /\ thr[t].resp.kind = "none"

RecommendSong(t) ==
    /\ Handling(t, "song")
    /\ \E r \in recommend_song(thr[t].arg) : thr' = [thr EXCEPT ![t].resp = r]
    /\ UNCHANGED <<uploaded, df, tfidf_matrix, mood_keywords, pc>>

\* mutant: the handler lowercases the artist column in place
RecommendByArtistInPlace(t) ==
    /\ Handling(t, "artist")
    /\ df' = [df EXCEPT !["artist"] = [i \in DOMAIN df["artist"] |-> Lower(df["artist"][i])]]
    /\ thr' = [thr EXCEPT ![t].resp = recommend_by_artist(thr[t].arg)]
    /\ UNCHANGED <<uploaded, tfidf_matrix, mood_keywords, pc>>

RecommendByArtist(t) ==
    /\ Handling(t, "artist")
    /\ thr' = [thr EXCEPT ![t].resp = recommend_by_artist(thr[t].arg)]
    /\ UNCHANGED <<uploaded, df, tfidf_matrix, mood_keywords, pc>>

RecommendByMood(t) ==
    /\ Handling(t, "mood")
    /\ thr' = [thr EXCEPT ![t].resp = recommend_by_mood(thr[t].arg)]
    /\ UNCHANGED <<uploaded, df, tfidf_matrix, mood_keywords, pc>>

----------------------------------------------------------------------------
(* Inputs of Spec: every catalog of up to MaxRows rows of RowPool *)

\* "dark night" / "A" / "X"
RowDarkNight ==
    [text |-> <<"d","a","r","k"," ","n","i","g","h","t">>, song |-> <<"A">>, artist |-> <<"X">>]
\* "tears" / "a" / "x": the normalized name of RowDarkNight, another text
RowTears ==
    [text |-> <<"t","e","a","r","s">>, song |-> <<"a">>, artist |-> <<"x">>]
\* a row of missing cells
RowMissing ==
    [text |-> NaN, song |-> NaN, artist |-> NaN]
\* "tears at night" / "b" / "Y"
RowTearsAtNight ==
    [text |-> <<"t","e","a","r","s"," ","a","t"," ","n","i","g","h","t">>, song |-> <<"b">>, artist |-> <<"Y">>]
\* "Dark night" / "c" / "X": the text of RowDarkNight up to letter case
RowDarkNightAgain ==
    [text |-> <<"D","a","r","k"," ","n","i","g","h","t">>, song |-> <<"c">>, artist |-> <<"X">>]

RowPool == {RowDarkNight, RowTears, RowMissing, RowTearsAtNight, RowDarkNightAgain}

Catalogs == UNION {[1..n -> RowPool] : n \in 0..MaxRows}

ColumnSets == { {"text", "song", "artist"}, {"text", "song"}, {"song", "artist"} }

\* "", "A", "a", "b", "c", "z", "X", "x", "Sad", "sad"
Queries == { <<>>, <<"A">>, <<"a">>, <<"b">>, <<"c">>, <<"z">>, <<"X">>, <<"x">>,
             <<"S","a","d">>, <<"s","a","d">> }

Routes == {"song", "artist", "mood"}

Init == \E rows \in Catalogs, cols \in ColumnSets : InitWith(Table(rows, cols))

Next ==
    \/ Build
    \/ \E route \in Routes, q \in Queries : Dispatch(1, route, q)
    \/ RecommendSong(1)
    \/ RecommendByArtist(1)
    \/ RecommendByMood(1)

Spec == Init /\ [][Next]_vars

----------------------------------------------------------------------------
(* Inputs of SpecConc: two catalogs, NumThreads worker threads *)

ConcCatalogs == { <<RowDarkNight, RowTears>>,
                  <<RowDarkNight, RowDarkNightAgain, RowMissing>> }

\* "", "A", "x", "Sad"
ConcQueries == { <<>>, <<"A">>, <<"x">>, <<"S","a","d">> }

InitConc == \E rows \in ConcCatalogs : InitWith(Table(rows, required_columns))

NextConc ==
    \/ Build
    \/ \E t \in Threads, route \in Routes, q \in ConcQueries : Dispatch(t, route, q)
    \/ \E t \in Threads : RecommendSong(t)
    \/ \E t \in Threads : RecommendByArtist(t)
    \/ \E t \in Threads : RecommendByMood(t)

SpecConc == InitConc /\ [][NextConc]_vars

----------------------------------------------------------------------------
(* Inputs of SpecBulk: catalogs around the top-N window, for the two filters *)

DigitChars == <<"0","1","2","3","4","5","6","7","8","9">>

\* "S" followed by the three digits of i
BulkName(i) == <<"S", DigitChars[(i \div 100) + 1], DigitChars[((i \div 10) % 10) + 1],
                 DigitChars[(i % 10) + 1]>>

\* rows that may carry another artist and another mood
SkipPositions == {1, TopN \div 2, TopN, TopN + 1}

\* row i: artist "X" or "x" and text "dark night", or, when skipped, "Y" and "tears"
BulkRow(i, skipped) ==
    IF i \in skipped
    THEN [text |-> <<"t","e","a","r","s">>, song |-> BulkName(i), artist |-> <<"Y">>]
    ELSE [text |-> <<"d","a","r","k"," ","n","i","g","h","t">>, song |-> BulkName(i),
          artist |-> IF i % 2 = 0 THEN <<"X">> ELSE <<"x">>]

BulkCatalogs ==
    { [i \in 1..n |-> BulkRow(i, skipped)] :
        n \in (TopN - 1)..(TopN + BulkExtra), skipped \in SUBSET SkipPositions }

\* "", "X", "x", "Y", "z", "dark_moody", "DARK_MOODY", "sad"
BulkQueries == { <<>>, <<"X">>, <<"x">>, <<"Y">>, <<"z">>,
                 <<"d","a","r","k","_","m","o","o","d","y">>,
                 <<"D","A","R","K","_","M","O","O","D","Y">>,
                 <<"s","a","d">> }

InitBulk == \E rows \in BulkCatalogs : InitWith(Table(rows, required_columns))

NextBulk ==
    \/ Build
    \/ \E route \in {"artist", "mood"}, q \in BulkQueries : Dispatch(1, route, q)
    \/ RecommendByArtist(1)
    \/ RecommendByMood(1)

SpecBulk == InitBulk /\ [][NextBulk]_vars

----------------------------------------------------------------------------
(* Inputs of SpecMood: one-row catalogs whose text is made of up to MaxPieces pieces *)

\* "dark", "Dark", "ness", " night", "Love", "ly", "old ", "days", "heart", "break",
\* "tears", " ", "-", "_"
MoodPieces == { <<"d","a","r","k">>, <<"D","a","r","k">>, <<"n","e","s","s">>,
                <<" ","n","i","g","h","t">>, <<"L","o","v","e">>, <<"l","y">>,
                <<"o","l","d"," ">>, <<"d","a","y","s">>, <<"h","e","a","r","t">>,
                <<"b","r","e","a","k">>, <<"t","e","a","r","s">>, <<" ">>, <<"-">>, <<"_">> }

RECURSIVE Concat(_)
Concat(ss) == IF ss = <<>> THEN <<>> ELSE Head(ss) \o Concat(Tail(ss))

MoodTexts == { Concat(ss) : ss \in UNION {[1..n -> MoodPieces] : n \in 0..MaxPieces} }

InitMood ==
    \E text \in MoodTexts :
        InitWith(Table(<<[text |-> text, song |-> <<"A">>, artist |-> <<"X">>]>>, required_columns))

NextMood == Build

SpecMood == InitMood /\ [][NextMood]_vars

----------------------------------------------------------------------------
(* Vocabulary of the properties *)

N == NumRows(df)

\* thread t has answered a request for the route
Done(t, route) == thr[t].route = route /\ thr[t].resp.kind # "none"

Found(t) == thr[t].resp.kind = "recommendations"

\* a and b are equal up to the case of their letters
CaseEq(a, b) ==
    /\ Len(a) = Len(b)
    /\ \A i \in DOMAIN a :
          \/ a[i] = b[i]
          \/ \E k \in DOMAIN UpperChars : {a[i], b[i]} = {UpperChars[k], LowerChars[k]}

\* the cell of the uploaded table, a missing cell read as the empty string
Cell(col, i) == IF uploaded[col][i] = NaN THEN <<>> ELSE uploaded[col][i]

\* the rows whose name / artist / mood is the query up to letter case
NameRows(q) == {i \in 1..N : CaseEq(Cell("song", i), q)}
ArtistRows(q) == {i \in 1..N : CaseEq(Cell("artist", i), q)}
MoodRows(q) == {i \in 1..N : CaseEq(df["mood"][i], q)}

\* the similarities of every row to row i
SimTo(i) == cosine_similarity(tfidf_matrix[i], tfidf_matrix)

\* the responses the handler of a route can give to a query
Responses(route, q) ==
    CASE route = "song" -> recommend_song(q)
      [] route = "artist" -> {recommend_by_artist(q)}
      [] route = "mood" -> {recommend_by_mood(q)}

----------------------------------------------------------------------------
(* C1: the list returned by recommend_song never contains the queried item: *)
(* the row index resolved for the query is not among the returned indices.  *)
C1_NeverSelf ==
    \A t \in Threads :
        Done(t, "song") /\ Found(t) =>
            \A k \in DOMAIN thr[t].resp.indices : thr[t].resp.indices[k] # thr[t].resp.song_index

(* C2: recommend_song returns the min(100, N-1) most similar items other    *)
(* than the queried one, by similarity descending: no item left out (other  *)
(* than the queried one) is strictly more similar than a returned item.     *)
C2_TopOthersDescending ==
    \A t \in Threads :
        Done(t, "song") /\ Found(t) =>
            LET r == thr[t].resp
                sim == SimTo(r.song_index)
                returned == Range(r.indices)
            IN  /\ Len(r.indices) = Min(TopN, N - 1)
                /\ r.song_index \notin returned
                /\ \A i \in (1..N) \ (returned \cup {r.song_index}) :
                       \A j \in returned : ~SimLess(sim[j], sim[i])
                /\ \A k \in 1..(Len(r.indices) - 1) :
                       ~SimLess(sim[r.indices[k]], sim[r.indices[k + 1]])

(* C4: an absent name / artist / mood yields the error value and no handler *)
(* raises; recommend_song gives the error value exactly when the name is    *)
(* absent, so a present name in a one-row catalog gives an empty list.      *)
C4_NotFoundSignal ==
    \A t \in Threads :
        thr[t].resp.kind # "none" =>
            /\ thr[t].resp.kind # "exception"
            /\ thr[t].route = "song" =>
                  /\ thr[t].resp.kind = "error" <=> NameRows(thr[t].arg) = {}
                  /\ (Found(t) /\ N = 1) => thr[t].resp.names = <<>>
            /\ (thr[t].route = "artist" /\ ArtistRows(thr[t].arg) = {}) => thr[t].resp.kind = "error"
            /\ (thr[t].route = "mood" /\ MoodRows(thr[t].arg) = {}) => thr[t].resp.kind = "error"

\* a name present in a one-row catalog was found, with an empty list
C4_Witness ==
    \E t \in Threads :
        Done(t, "song") /\ N = 1 /\ NameRows(thr[t].arg) # {} /\ Found(t) /\ thr[t].resp.names = <<>>

(* C5: an empty query string matches nothing: every handler answers it      *)
(* with the error value, also when missing cells were filled with "".       *)
C5_EmptyQueryNotFound ==
    \A t \in Threads :
        (thr[t].resp.kind # "none" /\ thr[t].arg = <<>>) => thr[t].resp.kind = "error"

(* C7: the lookups are case-insensitive: the response to a query is a       *)
(* response to every query that differs from it in letter case only, and an *)
(* item whose name / artist / mood is the query up to case is matched.      *)
C7_CaseInsensitive ==
    \A t \in Threads :
        thr[t].resp.kind # "none" =>
            /\ \A q \in Queries :
                  CaseEq(q, thr[t].arg) => thr[t].resp \in Responses(thr[t].route, q)
            /\ (thr[t].route = "song" /\ NameRows(thr[t].arg) # {}) => Found(t)
            /\ thr[t].route = "artist" =>
                  \A i \in ArtistRows(thr[t].arg) :
                      Found(t) /\ (N <= TopN => df["song"][i] \in Range(thr[t].resp.names))
            /\ thr[t].route = "mood" =>
                  \A i \in MoodRows(thr[t].arg) :
                      Found(t) /\ (N <= TopN => df["song"][i] \in Range(thr[t].resp.names))

\* a query with an upper case letter matched an item
C7_Witness ==
    \E t \in Threads :
        /\ thr[t].resp.kind # "none" /\ Found(t)
        /\ thr[t].arg # Lower(thr[t].arg)
        /\ thr[t].route = "song" => \E i \in NameRows(thr[t].arg) : Cell("song", i) # thr[t].arg

(* C8: the server serves only after the whole build (cells filled, columns  *)
(* validated, moods assigned, matrix built, names lowercased); with a       *)
(* required column missing it never serves and never answers a query.       *)
BuildComplete ==
    /\ required_columns \subseteq DOMAIN df
    /\ \A c \in DOMAIN df : \A i \in DOMAIN df[c] : df[c][i] # NaN
    /\ "mood" \in DOMAIN df /\ Len(df["mood"]) = N
    /\ Len(tfidf_matrix) = N
    /\ \A i \in 1..N : \A k \in DOMAIN df["song"][i] : df["song"][i][k] \notin Range(UpperChars)

C8_ServeAfterBuild ==
    /\ pc = "serving" => BuildComplete
    /\ \A t \in Threads : thr[t] # Idle => pc = "serving"
    /\ ~(required_columns \subseteq DOMAIN uploaded) =>
          pc # "serving" /\ \A t \in Threads : thr[t] = Idle

\* the server answered a query on a table that had missing cells and upper case names
C8_Witness ==
    /\ pc = "serving"
    /\ \E t \in Threads : Found(t)
    /\ \E i \in 1..N : uploaded["text"][i] = NaN
    /\ \E i \in 1..N : uploaded["song"][i] # NaN /\ uploaded["song"][i] # Lower(uploaded["song"][i])

(* C10: when several items share a normalized name, recommend_song resolves *)
(* the query to the first of them and ranks against that row's vector.      *)
C10_FirstInserted ==
    \A t \in Threads :
        Done(t, "song") /\ Found(t) =>
            LET r == thr[t].resp
                first == CHOOSE i \in NameRows(thr[t].arg) : \A j \in NameRows(thr[t].arg) : i <= j
                sim == SimTo(first)
            IN  /\ r.song_index = first
                /\ \A k \in 1..(Len(r.indices) - 1) :
                       ~SimLess(sim[r.indices[k]], sim[r.indices[k + 1]])
                /\ r.names = [k \in DOMAIN r.indices |-> df["song"][r.indices[k]]]

\* two rows of different texts share the queried name, and two others were ranked
C10_Witness ==
    \E t \in Threads :
        /\ Done(t, "song") /\ Found(t)
        /\ \E i, j \in NameRows(thr[t].arg) : i < j /\ tfidf_matrix[i] # tfidf_matrix[j]
        /\ Len(thr[t].resp.indices) >= 2
        /\ SimLess(SimTo(thr[t].resp.song_index)[thr[t].resp.indices[2]],
                   SimTo(thr[t].resp.song_index)[thr[t].resp.indices[1]])

----------------------------------------------------------------------------
(* Properties of the two filters, checked under SpecBulk *)

\* the list of at most TopN songs of the rows of M, in row order
FirstInRowOrder(names, M) ==
    LET rank == [i \in 1..N |-> Cardinality({j \in M : j <= i})]
    IN  /\ Len(names) = Min(TopN, Cardinality(M))
        /\ \A i \in M : rank[i] <= TopN => names[rank[i]] = df["song"][i]

(* C3: the result of recommend_by_artist (recommend_by_mood) has at most    *)
(* 100 entries and is the first 100 rows, in row order, whose lowercased    *)
(* artist (mood) is the lowercased query; none is reordered or skipped.     *)
C3_FirstHundredInOrder ==
    \A t \in Threads :
        /\ Done(t, "artist") /\ Found(t) =>
              /\ Len(thr[t].resp.names) <= TopN
              /\ FirstInRowOrder(thr[t].resp.names, ArtistRows(thr[t].arg))
        /\ Done(t, "mood") /\ Found(t) =>
              /\ Len(thr[t].resp.names) <= TopN
              /\ FirstInRowOrder(thr[t].resp.names, MoodRows(thr[t].arg))

\* more than TopN rows match the artist, and a row before the cut-off does not
C3_Witness ==
    \E t \in Threads :
        /\ Done(t, "artist") /\ Found(t)
        /\ Cardinality(ArtistRows(thr[t].arg)) > TopN
        /\ \E i \in 1..TopN : i \notin ArtistRows(thr[t].arg)
        /\ Len(thr[t].resp.names) = TopN

----------------------------------------------------------------------------
(* Properties of assign_mood, checked under SpecMood *)

\* word occurs in text with no word character right before or right after it
WholeWordIn(word, text) ==
    \E p \in 1..(Len(text) - Len(word) + 1) :
        /\ SubSeq(text, p, p + Len(word) - 1) = word
        /\ p = 1 \/ ~IsWordChar(text[p - 1])
        /\ p + Len(word) - 1 = Len(text) \/ ~IsWordChar(text[p + Len(word)])

\* the labels, in declaration order, with a trigger word in the lowercased text
Triggered(text) ==
    {k \in DOMAIN MoodKeywordsInit :
        \E w \in DOMAIN MoodKeywordsInit[k].keywords :
            WholeWordIn(MoodKeywordsInit[k].keywords[w], Lower(text))}

(* C6: assign_mood returns the first label, in the order sad, energetic_gym, *)
(* romantic, nostalgic, energetic_hype, dark_moody, with a trigger word      *)
(* occurring in the lowercased text as a word-boundary-delimited match, and  *)
(* unknown if there is none; a trigger inside a longer word does not count.  *)
C6_FirstTriggeredMood ==
    "mood" \in DOMAIN df =>
        \A i \in 1..N :
            LET text == Cell("text", i)
            IN  IF Triggered(text) = {}
                THEN df["mood"][i] = Unknown
                ELSE df["mood"][i] =
                        MoodKeywordsInit[CHOOSE k \in Triggered(text) :
                                            \A m \in Triggered(text) : k <= m].mood

\* "darkness" was tagged unknown
C6_Witness ==
    /\ "mood" \in DOMAIN df
    /\ N = 1
    /\ uploaded["text"][1] = <<"d","a","r","k","n","e","s","s">>
    /\ df["mood"][1] = Unknown

----------------------------------------------------------------------------
(* Properties of the running server, checked under SpecConc *)

MoodLabels == {MoodKeywordsInit[k].mood : k \in DOMAIN MoodKeywordsInit} \cup {Unknown}

\* every item has one mood label, a lexicon key or unknown, and every answer
\* is an answer of its handler to its query on the catalog as it is
ServingInv ==
    pc = "serving" =>
        /\ mood_keywords = MoodKeywordsInit
        /\ Len(df["mood"]) = N
        /\ \A i \in 1..N : df["mood"][i] \in MoodLabels
        /\ \A t \in Threads :
              thr[t].resp.kind # "none" => thr[t].resp \in Responses(thr[t].route, thr[t].arg)

\* a step of the running server leaves the catalog, the moods, the lexicon and the index alone
ServingFrame ==
    pc = "serving" =>
        /\ df' = df
        /\ tfidf_matrix' = tfidf_matrix
        /\ mood_keywords' = mood_keywords
        /\ uploaded' = uploaded

(* C9: once serving, every interleaving of concurrent queries leaves the    *)
(* catalog rows, the mood labels, the lexicon and the vector index          *)
(* unchanged; each item keeps the one label assigned at ingestion, and an   *)
(* answer does not depend on the other queries.                             *)
C9_QueriesReadOnly == []ServingInv /\ [][ServingFrame]_vars

\* one thread has answered while another is still handling its request
C9_Witness ==
    \E t, u \in Threads :
        /\ t # u
        /\ Found(t)
        /\ thr[u].route # "none" /\ thr[u].resp.kind = "none"

====
